---- MODULE Spec2Model ----
(***************************************************************************)
(* A model of virtManager/inspection.py: the vmmInspection thread.         *)
(*                                                                         *)
(* The main thread posts events on _q (conn_added, conn_removed,           *)
(* vm_added).  The inspection thread sleeps, then loops forever over       *)
(* _process_queue (one blocking get, then non-blocking gets until Empty)   *)
(* and _process_vms (every unseen VM of every tracked connection is        *)
(* handed to _process, which drives one libguestfs handle).                *)
(*                                                                         *)
(* The connection objects, the VM objects and the GuestFS handle are       *)
(* collaborators: what they return is chosen nondeterministically.  The    *)
(* calls the source wraps in try/except (get_vm, and everything inside     *)
(* _process) may raise; is_remote, get_uri and list_vm_uuids, which the    *)
(* source calls outside any handler, return normally.                      *)
(***************************************************************************)
EXTENDS Integers, Sequences, FiniteSets

VARIABLES
    world,      \* which bounded environment this behaviour runs in
    caps,       \* optional methods the installed guestfs binding has (hasattr)
    q,          \* self._q: the events put and not yet got
    conns,      \* self._conns: uri -> connection
    vmseen,     \* self._vmseen: the keys of the dict
    pc,         \* where the inspection thread is
    todo,       \* _process_vms: uris itervalues() has not yet yielded
    conn,       \* _process_vms: the connection being iterated
    uuids,      \* _process_vms: the rest of conn.list_vm_uuids()
    vmuuid,     \* _process_vms/_process: the VM being processed
    g,          \* _process: "unbound", or the state of the handle g names
    drives,     \* _process: the add_drive_opts calls made on g
    root,       \* _process: roots[0]
    result,     \* _process: product_variant, icon, apps
    filesystems_mounted,
    mps,        \* _process: the sorted mountpoint list
    attempts,   \* _process: the mount_ro calls made, in order
    returned,   \* history: what inspect_get_mountpoints returned, unsorted
    unreleased, \* handles no name refers to any more and nobody closed
    nposted,    \* history: events put so far
    applied,    \* history: ids of the events _process_queue_item was given
    added,      \* history: uris of the connections conn_added was posted for
    nproc,      \* history: vmuuid -> calls of _process
    last,       \* history: the last vmuuid processed and how that ended
    cyc,        \* history of the current _process_vms call
    burst       \* history of the events posted from one idle wait on

vars == <<world, caps, q, conns, vmseen, pc, todo, conn, uuids, vmuuid, g,
          drives, root, result, filesystems_mounted, mps, attempts, returned,
          unreleased, nposted, applied, added, nproc, last, cyc, burst>>

----------------------------------------------------------------------------
(* Bounds of the environments.                                             *)

\* events the main thread posts in the "worker" environment
MaxPosts == 3
\* events the main thread posts in the "burst" environment
BurstSize == 5
\* events the main thread posts in the "inspect" environment
InspectPosts == 1
\* longest list list_vm_uuids returns
MaxVmList == 2
\* longest list inspect_get_mountpoints returns in the "inspect" environment
MaxMounts == 3

Worlds == {"worker", "burst", "inspect"}

MaxPostsOf(w) ==
    CASE w = "worker" -> MaxPosts
      [] w = "burst" -> BurstSize
      [] OTHER -> InspectPosts

----------------------------------------------------------------------------
(* The collaborators.                                                      *)

\* Python's None, where a connection or a string is expected
None == "None"

\* the connection objects the main thread can hand to conn_added
ConnsOf(w) == IF w = "worker" THEN {"cL1", "cL2", "cR", None} ELSE {"cL1"}

AllConns == {"cL1", "cL2", "cR"}

\* conn.is_remote()
is_remote(c) == c = "cR"

\* conn.get_uri()
get_uri(c) ==
    CASE c = "cL1" -> "qemu:///system"
      [] c = "cL2" -> "xen:///"
      [] c = "cR" -> "qemu+ssh://host/system"

AllUris == {get_uri(c) : c \in AllConns}

UrisOf(w) == {get_uri(c) : c \in ConnsOf(w) \ {None}}

AllVms == {"vm1", "vm2", "vm3"}

\* the machines of a connection: two local connections share theirs
VmsOf(w, c) ==
    IF c = "cR" THEN {"vm3"}
    ELSE IF w = "worker" THEN {"vm1", "vm2"} ELSE {"vm1"}

SeqsUpTo(S, n) == UNION {[1..k -> S] : k \in 0..n}

Range(s) == {s[i] : i \in 1..Len(s)}

Injective(s) == \A i, j \in 1..Len(s) : s[i] = s[j] => i = j

\* conn.list_vm_uuids(): any list of the connection's machines
list_vm_uuids(w, c) ==
    {s \in SeqsUpTo(VmsOf(w, c), MaxVmList) : Injective(s)}

\* vm.get_disk_devices(): [type, path, driver_type] per disk
get_disk_devices(v) ==
    IF v = "vm1"
    THEN << [type |-> "file", path |-> "/img/a.qcow2", driver_type |-> "qcow2"],
            [type |-> "network", path |-> "nbd:host:10809", driver_type |-> "raw"],
            [type |-> "block", path |-> None, driver_type |-> "raw"],
            [type |-> "block", path |-> "/dev/vg/a", driver_type |-> None] >>
    ELSE << [type |-> "block", path |-> "/dev/vg/b", driver_type |-> "raw"] >>

\* mountpoints are strings: sequences of characters
MpRoot == <<"/">>
MpVar == <<"/", "v", "a", "r">>
MpHome == <<"/", "h", "o", "m", "e">>
MpVarLib == <<"/", "v", "a", "r", "/", "l", "i", "b">>

\* the (mountpoint, device) pairs inspect_get_mountpoints can return
MpPairs ==
    { <<MpRoot, "/dev/sda1">>, <<MpVar, "/dev/sda2">>,
      <<MpHome, "/dev/sda3">>, <<MpVarLib, "/dev/sda5">> }

\* g.inspect_get_mountpoints(root): the keys are distinct mountpoints
inspect_get_mountpoints(w) ==
    IF w = "inspect"
    THEN {s \in SeqsUpTo(MpPairs, MaxMounts) : Injective(s)}
    ELSE { <<>>, << <<MpRoot, "/dev/sda1">> >> }

\* the optional methods hasattr() is asked about, and inspect_list_applications
Capabilities == {"inspect_get_product_variant", "inspect_get_icon",
                 "inspect_list_applications"}

CapsOf(w) == IF w = "inspect" THEN SUBSET Capabilities ELSE {Capabilities}

----------------------------------------------------------------------------
(* The main thread: conn_added, conn_removed, vm_added.                    *)

NoBurst == [posts |-> 0, taken |-> 0, scans |-> 0, early |-> TRUE]

\* a queue that has room for one event only
Full_at_one(queue) == Len(queue) >= 1

\* Queue() is built without a maxsize: the queue is never full
Full(queue) == FALSE

\* self._q.put(obj), which waits while the queue is full
Put(op, arg) ==
    /\ nposted < MaxPostsOf(world)
    /\ ~Full(q)
    /\ q' = Append(q, [op |-> op, arg |-> arg, id |-> nposted + 1,
                       after_add |-> op = "conn_removed" /\ arg \in added])
    /\ nposted' = nposted + 1
    /\ added' = IF op = "conn_added" /\ arg # None
                 THEN added \cup {get_uri(arg)} ELSE added
    /\ burst' =
         IF world # "burst" THEN burst
         ELSE IF burst.posts = 0
         THEN IF pc = "get_first" /\ q = <<>>
              THEN [NoBurst EXCEPT !.posts = 1]
              ELSE burst
         ELSE [burst EXCEPT !.posts = @ + 1,
                            !.early = @ /\ burst.taken = 0]
    /\ UNCHANGED <<world, caps, conns, vmseen, pc, todo, conn, uuids, vmuuid,
                   g, drives, root, result, filesystems_mounted, mps,
                   attempts, returned, unreleased, applied, nproc, last, cyc>>

conn_added(c) == Put("conn_added", c)

conn_removed(uri) == Put("conn_removed", uri)

vm_added == Put("vm_added", None)

----------------------------------------------------------------------------
(* The inspection thread: run, _process_queue, _process_queue_item.        *)

EmptyDict == [u \in {} |-> None]

NoCycle == [failed |-> {}, pending |-> {}, proc |-> {}, fetchfail |-> {}]

NoResult == [product_variant |-> None, icon |-> None, apps |-> None]

\* _process_queue_item without the is_remote test
process_queue_item_any(obj, cs) ==
    IF obj.op = "conn_added"
    THEN IF obj.arg # None
         THEN [raised |-> FALSE,
               conns |-> [u \in DOMAIN cs \cup {get_uri(obj.arg)} |->
                             IF u = get_uri(obj.arg) THEN obj.arg ELSE cs[u]]]
         ELSE [raised |-> FALSE, conns |-> cs]
    ELSE IF obj.op = "conn_removed"
    THEN IF obj.arg \in DOMAIN cs
         THEN [raised |-> FALSE,
               conns |-> [u \in DOMAIN cs \ {obj.arg} |-> cs[u]]]
         ELSE [raised |-> TRUE, conns |-> cs]
    ELSE [raised |-> FALSE, conns |-> cs]

\* _process_queue_item(obj) on the dict cs: the dict afterwards, or the
\* KeyError of "del self._conns[uri]".  vm_added puts the bare string
\* "vm_added", whose obj[0] is "v": no branch is taken, as for the pass.
process_queue_item(obj, cs) ==
    IF obj.op = "conn_added"
    THEN IF obj.arg # None /\ ~is_remote(obj.arg)
         THEN [raised |-> FALSE,
               conns |-> [u \in DOMAIN cs \cup {get_uri(obj.arg)} |->
                             IF u = get_uri(obj.arg) THEN obj.arg ELSE cs[u]]]
         ELSE [raised |-> FALSE, conns |-> cs]
    ELSE IF obj.op = "conn_removed"
    THEN IF obj.arg \in DOMAIN cs
         THEN [raised |-> FALSE,
               conns |-> [u \in DOMAIN cs \ {obj.arg} |-> cs[u]]]
         ELSE [raised |-> TRUE, conns |-> cs]
    ELSE [raised |-> FALSE, conns |-> cs]

\* what is left of a drain after one event: the next non-blocking get, or
\* the end of the thread when the exception leaves run()
AfterItem(r) == IF r.raised THEN "dead" ELSE "get_more"

\* one get, _process_queue_item and task_done
TakeItem ==
    LET r == process_queue_item(Head(q), conns) IN
    /\ q' = Tail(q)
    /\ conns' = r.conns
    /\ pc' = AfterItem(r)
    /\ applied' = Append(applied, Head(q).id)
    /\ burst' = IF burst.posts > 0 THEN [burst EXCEPT !.taken = @ + 1]
                ELSE burst
    /\ UNCHANGED <<world, caps, vmseen, todo, conn, uuids, vmuuid, g, drives,
                   root, result, filesystems_mounted, mps, attempts, returned,
                   unreleased, nposted, added, nproc, last, cyc>>

\* run: time.sleep(self._wait) is over
Sleep ==
    /\ pc = "sleep"
    /\ pc' = "get_first"
    /\ UNCHANGED <<world, caps, q, conns, vmseen, todo, conn, uuids, vmuuid,
                   g, drives, root, result, filesystems_mounted, mps,
                   attempts, returned, unreleased, nposted, applied, added,
                   nproc, last, cyc, burst>>

\* _process_queue: first_obj = self._q.get() blocks while the queue is empty
GetFirst ==
    /\ pc = "get_first"
    /\ q # <<>>
    /\ TakeItem

\* a drain that stops after its first event
DrainsOn_never(queue) == FALSE

\* what the non-blocking get does on a non-empty queue
DrainsOn(queue) == queue # <<>>

\* an iteration that yields one value only
itervalues_first(cs) ==
    IF DOMAIN cs = {} THEN {} ELSE {CHOOSE u \in DOMAIN cs : TRUE}

\* self._conns.itervalues(): the keys whose values the iteration yields
itervalues(cs) == DOMAIN cs

\* _process_queue: obj = self._q.get(False), until Empty; then run calls
\* _process_vms, whose for loop starts over the values of self._conns
GetMore ==
    /\ pc = "get_more"
    /\ IF DrainsOn(q)
       THEN TakeItem
       ELSE /\ pc' = "scan_conn"
            /\ todo' = itervalues(conns)
            /\ burst' = IF burst.posts > 0 THEN [burst EXCEPT !.scans = @ + 1]
                        ELSE burst
            /\ UNCHANGED <<world, caps, q, conns, vmseen, conn, uuids, vmuuid,
                           g, drives, root, result, filesystems_mounted, mps,
                           attempts, returned, unreleased, nposted, applied, added,
                           nproc, last, cyc>>

----------------------------------------------------------------------------
(* _process_vms.                                                           *)

\* nothing logged yet; exc is "none", "raised" for an exception of a
\* collaborator, or "AttributeError" for a method the binding lacks
NoLog == [vmuuid |-> None, outcome |-> "none", exc |-> "none"]

\* "if not (vmuuid in self._vmseen)"
Unseen(v, seen) == v \notin seen

\* the unseen machines among the elements of a list
UnseenIn(list) == {v \in Range(list) : Unseen(v, vmseen)}

\* the for loop over self._conns.itervalues() yields the next connection,
\* in the dict's order, and conn.list_vm_uuids() is called on it
NextConn ==
    /\ pc = "scan_conn"
    /\ todo # {}
    /\ \E u \in todo :
         \E list \in list_vm_uuids(world, conns[u]) :
            /\ todo' = todo \ {u}
            /\ conn' = conns[u]
            /\ uuids' = list
            /\ cyc' = IF cyc.failed # {}
                      THEN [cyc EXCEPT !.pending = @ \cup UnseenIn(list)]
                      ELSE cyc
    /\ pc' = "scan_vm"
    /\ UNCHANGED <<world, caps, q, conns, vmseen, vmuuid, g, drives, root,
                   result, filesystems_mounted, mps, attempts, returned, unreleased,
                   nposted, applied, added, nproc, last, burst>>

\* the for loop is exhausted: _process_vms returns and run loops
ScanReturn ==
    /\ pc = "scan_conn"
    /\ todo = {}
    /\ pc' = "get_first"
    /\ conn' = None
    /\ cyc' = NoCycle
    /\ UNCHANGED <<world, caps, q, conns, vmseen, todo, uuids, vmuuid, g,
                   drives, root, result, filesystems_mounted, mps, attempts, returned,
                   unreleased, nposted, applied, added, nproc,
                   last, burst>>

\* a scan that remembers the last machine only
MarkSeen_only(v, seen) == {v}

\* a scan that does not record the machine
MarkSeen_forgets(v, seen) == seen

\* the keys of self._vmseen once get_vm(v) has returned
MarkSeen(v, seen) == seen \cup {v}

\* the inner for loop: the next vmuuid; if unseen, conn.get_vm, which may
\* raise into the except clause, then self._vmseen[vmuuid] = True and the
\* call of _process
NextVm ==
    /\ pc = "scan_vm"
    /\ IF uuids = <<>>
       THEN /\ pc' = "scan_conn"
            /\ UNCHANGED <<uuids, vmseen, vmuuid, nproc, last, cyc>>
       ELSE LET v == Head(uuids) IN
            /\ uuids' = Tail(uuids)
            /\ IF ~Unseen(v, vmseen)
               THEN /\ pc' = "scan_vm"
                    /\ UNCHANGED <<vmseen, vmuuid, nproc, last, cyc>>
               ELSE \E got \in BOOLEAN :
                      IF got
                      THEN /\ vmseen' = MarkSeen(v, vmseen)
                           /\ vmuuid' = v
                           /\ nproc' = [nproc EXCEPT ![v] = @ + 1]
                           /\ cyc' = [cyc EXCEPT !.proc = @ \cup {v}]
                           /\ pc' = "attach"
                           /\ UNCHANGED last
                      ELSE /\ last' = [vmuuid |-> v, outcome |-> "error",
                                      exc |-> "raised"]
                           /\ cyc' = [cyc EXCEPT !.fetchfail = @ \cup {v}]
                           /\ pc' = "scan_vm"
                           /\ UNCHANGED <<vmseen, vmuuid, nproc>>
    /\ UNCHANGED <<world, caps, q, conns, todo, conn, g, drives, root, result,
                   filesystems_mounted, mps, attempts, returned, unreleased, nposted,
                   applied, added, burst>>

----------------------------------------------------------------------------
(* _process.                                                               *)

NotReturned == [ok |-> FALSE, list |-> <<>>]

\* the frame of _process is gone: its locals with it
FrameGone ==
    /\ vmuuid' = None
    /\ g' = "unbound"
    /\ drives' = <<>>
    /\ root' = None
    /\ result' = NoResult
    /\ filesystems_mounted' = FALSE
    /\ mps' = <<>>
    /\ attempts' = <<>>
    /\ returned' = NotReturned

\* the handles left to the garbage collector when _process is left, by a
\* return or by an exception, at a point where "del g" has not run
LeftOpen(handle) == IF handle = "unbound" THEN 0 ELSE 1

\* a _process whose answer to a machine without operating system ends the
\* thread
AfterProcess_no_os_fatal(outcome) ==
    IF outcome = "no-os-found" THEN "dead" ELSE "scan_vm"

\* a scan without the except clause: the exception ends the thread
AfterProcess_uncaught(outcome) ==
    IF outcome = "error" THEN "dead" ELSE "scan_vm"

\* where _process_vms goes on once _process is left: after a return, and
\* after an exception, which the except clause logs, the next vmuuid
AfterProcess(outcome) == "scan_vm"

\* _process is left before its "del g": by the return of line 128, or by an
\* exception, which the except clause of _process_vms catches and logs
Abandon(outcome, exc, handle, newcyc) ==
    /\ pc' = AfterProcess(outcome)
    /\ unreleased' = unreleased + LeftOpen(handle)
    /\ last' = [vmuuid |-> vmuuid, outcome |-> outcome, exc |-> exc]
    /\ cyc' = newcyc
    /\ FrameGone
    /\ UNCHANGED <<world, caps, q, conns, vmseen, todo, conn, uuids, nposted,
                   applied, added, nproc, burst>>

\* "(disk.type == "block" or disk.type == "file") and path != None"
Attachable(disk) ==
    (disk.type = "block" \/ disk.type = "file") /\ disk.path # None

\* an attachment without the readonly flag
add_drive_opts_rw(disk) ==
    [path |-> disk.path, readonly |-> 0, format |-> disk.driver_type]

\* g.add_drive_opts(path, readonly=1, format=driver_type)
add_drive_opts(disk) ==
    [path |-> disk.path, readonly |-> 1, format |-> disk.driver_type]

RECURSIVE AddDrives(_)
AddDrives(disks) ==
    IF disks = <<>> THEN <<>>
    ELSE IF Attachable(Head(disks))
         THEN <<add_drive_opts(Head(disks))>> \o AddDrives(Tail(disks))
         ELSE AddDrives(Tail(disks))

\* g = GuestFS() and the loop over vm.get_disk_devices()
Attach ==
    /\ pc = "attach"
    /\ \E r \in {"GuestFS", "get_disk_devices", "add_drive_opts", "ok"} :
         IF r = "ok"
         THEN /\ g' = "open"
              /\ drives' = AddDrives(get_disk_devices(vmuuid))
              /\ pc' = "launch"
              /\ UNCHANGED <<world, caps, q, conns, vmseen, todo, conn, uuids,
                             vmuuid, root, result, filesystems_mounted, mps,
                             attempts, returned, unreleased, nposted, applied,
                             added, nproc, last, cyc,
                             burst>>
         ELSE Abandon("error", "raised",
                      IF r = "GuestFS" THEN "unbound" ELSE "open", cyc)

\* g.launch()
Launch ==
    /\ pc = "launch"
    /\ \E r \in {"raise", "ok"} :
         IF r = "ok"
         THEN /\ g' = "launched"
              /\ pc' = "inspect_os"
              /\ UNCHANGED <<world, caps, q, conns, vmseen, todo, conn, uuids,
                             vmuuid, drives, root, result,
                             filesystems_mounted, mps, attempts, returned, unreleased,
                             nposted, applied, added, nproc,
                             last, cyc, burst>>
         ELSE Abandon("error", "raised", g,
                      [cyc EXCEPT !.failed = @ \cup {vmuuid},
                                  !.pending = @ \cup UnseenIn(uuids)])

\* the lists g.inspect_os() can return
RootLists == { <<>>, <<"/dev/sda1">>, <<"/dev/sda2", "/dev/sda1">> }

\* roots = g.inspect_os(); return if there is none; root = roots[0]
InspectOs ==
    /\ pc = "inspect_os"
    /\ \E r \in {"raise", "ok"} : \E roots \in RootLists :
         IF r = "raise"
         THEN Abandon("error", "raised", g, cyc)
         ELSE IF Len(roots) = 0
         THEN Abandon("no-os-found", "none", g, cyc)
         ELSE /\ root' = roots[1]
              /\ pc' = "metadata"
              /\ UNCHANGED <<world, caps, q, conns, vmseen, todo, conn, uuids,
                             vmuuid, g, drives, result, filesystems_mounted,
                             mps, attempts, returned, unreleased, nposted, applied,
                             added, nproc, last, cyc,
                             burst>>

\* hasattr(g, name)
hasattr(name) == name \in caps

\* inspect_get_type .. inspect_get_product_name, and
\* inspect_get_product_variant where the binding has it
Metadata ==
    /\ pc = "metadata"
    /\ \E r \in {"raise", "ok"} :
         IF r = "raise"
         THEN Abandon("error", "raised", g, cyc)
         ELSE /\ result' = [result EXCEPT !.product_variant =
                               IF hasattr("inspect_get_product_variant")
                               THEN "variant" ELSE None]
              /\ pc' = "mountpoints"
              /\ UNCHANGED <<world, caps, q, conns, vmseen, todo, conn, uuids,
                             vmuuid, g, drives, root, filesystems_mounted,
                             mps, attempts, returned, unreleased, nposted, applied,
                             added, nproc, last, cyc,
                             burst>>

\* a cmp function that orders nothing
compare_none(a, b) == 0

\* the cmp function given to mps.sort: by the length of the mountpoint a[0]
compare(a, b) ==
    IF Len(a[1]) > Len(b[1]) THEN 1
    ELSE IF Len(a[1]) = Len(b[1]) THEN 0
    ELSE -1

\* list.sort(cmp) is a stable sort: x goes before the first element it is
\* smaller than
RECURSIVE Insert(_, _)
Insert(x, s) ==
    IF s = <<>> THEN <<x>>
    ELSE IF compare(x, Head(s)) < 0 THEN <<x>> \o s
    ELSE <<Head(s)>> \o Insert(x, Tail(s))

RECURSIVE sort(_)
sort(s) ==
    IF s = <<>> THEN <<>>
    ELSE Insert(s[Len(s)], sort(SubSeq(s, 1, Len(s) - 1)))

\* filesystems_mounted = False; mps = g.inspect_get_mountpoints(root);
\* mps.sort(compare).  An exception is caught by the outer except clause,
\* past "filesystems_mounted = True"
Mountpoints ==
    /\ pc = "mountpoints"
    /\ \E r \in {"raise", "ok"} : \E list \in inspect_get_mountpoints(world) :
         IF r = "raise"
         THEN /\ pc' = "extract"
              /\ UNCHANGED <<mps, returned>>
         ELSE /\ pc' = "mount"
              /\ mps' = sort(list)
              /\ returned' = [ok |-> TRUE, list |-> list]
    /\ filesystems_mounted' = FALSE
    /\ UNCHANGED <<world, caps, q, conns, vmseen, todo, conn, uuids, vmuuid,
                   g, drives, root, result, attempts, unreleased, nposted,
                   applied, added, nproc, last, cyc,
                   burst>>

\* g.mount_ro(mp_dev[1], mp_dev[0]) inside its own try
mount_ro(mp_dev, ok) ==
    [device |-> mp_dev[2], mountpoint |-> mp_dev[1], readonly |-> 1, ok |-> ok]

\* a flag that is set only when every mount succeeded
MountsDone_all_ok(att) == \A i \in 1..Len(att) : att[i].ok

\* "filesystems_mounted = True" after the loop, whatever the mounts did
MountsDone(att) == TRUE

\* the for loop over mps: one mount_ro, whose exception is logged and
\* ignored; after the last, filesystems_mounted = True
MountRo ==
    /\ pc = "mount"
    /\ IF Len(attempts) < Len(mps)
       THEN /\ \E ok \in BOOLEAN :
                 attempts' = Append(attempts,
                                    mount_ro(mps[Len(attempts) + 1], ok))
            /\ UNCHANGED <<pc, filesystems_mounted>>
       ELSE /\ filesystems_mounted' = MountsDone(attempts)
            /\ pc' = "extract"
            /\ UNCHANGED attempts
    /\ UNCHANGED <<world, caps, q, conns, vmseen, todo, conn, uuids, vmuuid,
                   g, drives, root, result, mps, returned, unreleased,
                   nposted, applied, added, nproc, last, cyc,
                   burst>>

\* icon = None; apps = None; if filesystems_mounted: inspect_get_icon where
\* the binding has it ("" becomes None), then inspect_list_applications,
\* which is called whether or not the binding has it
Extract ==
    /\ pc = "extract"
    /\ IF ~filesystems_mounted
       THEN /\ pc' = "release"
            /\ UNCHANGED <<world, caps, q, conns, vmseen, todo, conn, uuids,
                           vmuuid, g, drives, root, result,
                           filesystems_mounted, mps, attempts, returned, unreleased,
                           nposted, applied, added, nproc,
                           last, cyc, burst>>
       ELSE \E icon \in {"raise", "", "PNG"} : \E apps \in {"raise", "apps"} :
              IF hasattr("inspect_get_icon") /\ icon = "raise"
              THEN Abandon("error", "raised", g, cyc)
              ELSE IF ~hasattr("inspect_list_applications")
              THEN Abandon("error", "AttributeError", g, cyc)
              ELSE IF apps = "raise"
              THEN Abandon("error", "raised", g, cyc)
              ELSE /\ result' = [result EXCEPT
                                   !.icon = IF hasattr("inspect_get_icon")
                                               /\ icon = "PNG"
                                            THEN icon ELSE None,
                                   !.apps = apps]
                   /\ pc' = "release"
                   /\ UNCHANGED <<world, caps, q, conns, vmseen, todo, conn,
                                  uuids, vmuuid, g, drives, root,
                                  filesystems_mounted, mps, attempts, returned,
                                  unreleased, nposted, applied, added,
                                  nproc, last, cyc, burst>>

\* "del g" closes the handle; the results are logged; _process returns
Release ==
    /\ pc = "release"
    /\ pc' = "scan_vm"
    /\ last' = [vmuuid |-> vmuuid, outcome |-> "inspected", exc |-> "none"]
    /\ FrameGone
    /\ UNCHANGED <<world, caps, q, conns, vmseen, todo, conn, uuids,
                   unreleased, nposted, applied, added, nproc,
                   cyc, burst>>

\* the Python runtime finalizes a GuestFS object no name refers to, at a
\* time of its choosing
Finalize ==
    /\ unreleased > 0
    /\ unreleased' = unreleased - 1
    /\ UNCHANGED <<world, caps, q, conns, vmseen, pc, todo, conn, uuids,
                   vmuuid, g, drives, root, result, filesystems_mounted, mps,
                   attempts, returned, nposted, applied, added, nproc,
                   last, cyc, burst>>

----------------------------------------------------------------------------
(* The specifications.                                                     *)

\* __init__, in environment w
InitIn(w) ==
    /\ world = w
    /\ caps \in CapsOf(w)
    /\ q = <<>>
    /\ conns = EmptyDict
    /\ vmseen = {}
    /\ pc = "sleep"
    /\ todo = {}
    /\ conn = None
    /\ uuids = <<>>
    /\ vmuuid = None
    /\ g = "unbound"
    /\ drives = <<>>
    /\ root = None
    /\ result = NoResult
    /\ filesystems_mounted = FALSE
    /\ mps = <<>>
    /\ attempts = <<>>
    /\ returned = NotReturned
    /\ unreleased = 0
    /\ nposted = 0
    /\ applied = <<>>
    /\ added = {}
    /\ nproc = [v \in AllVms |-> 0]
    /\ last = NoLog
    /\ cyc = NoCycle
    /\ burst = NoBurst

Init == InitIn("worker")

InitBurst == InitIn("burst")

InitInspect == InitIn("inspect")

MainThread ==
    \/ \E c \in ConnsOf(world) : conn_added(c)
    \/ \E uri \in UrisOf(world) : conn_removed(uri)
    \/ vm_added

InspectionThread ==
    \/ Sleep
    \/ GetFirst
    \/ GetMore
    \/ NextConn
    \/ ScanReturn
    \/ NextVm
    \/ Attach
    \/ Launch
    \/ InspectOs
    \/ Metadata
    \/ Mountpoints
    \/ MountRo
    \/ Extract
    \/ Release

Next == MainThread \/ InspectionThread \/ Finalize

Spec == Init /\ [][Next]_vars

SpecBurst == InitBurst /\ [][Next]_vars

SpecInspect == InitInspect /\ [][Next]_vars

\* the inspection thread is scheduled whenever it can take a step
FairSpec == InitBurst /\ [][Next]_vars /\ WF_vars(InspectionThread)

----------------------------------------------------------------------------
(* Properties.                                                             *)

\* the inspection thread is between two attempts, or has none to make
NoAttempt == vmuuid = None

\* _process_vms has visited every connection and is about to return
ScanDone == pc = "scan_conn" /\ todo = {}

\* the inspection thread takes the event at the head of the queue
Takes == pc \in {"get_first", "get_more"} /\ q # <<>> /\ q' = Tail(q)

\* C1: _process is called at most once for a machine identifier, however
\* often and by however many connections the identifier is listed.
C1_AtMostOnce == \A v \in AllVms : nproc[v] <= 1

\* a machine inspected in an earlier scan is listed again in this one
C1_Witness ==
    /\ pc = "scan_vm"
    /\ uuids # <<>>
    /\ nproc[Head(uuids)] = 1
    /\ Head(uuids) \notin cyc.proc
    /\ Len(applied) = MaxPosts

\* C2: a conn_removed event for a uri the registry does not hold raises no
\* error, changes neither the registry nor the seen set, and the thread
\* goes on with the next event.
C2_RemoveAbsentIsNoOp ==
    [][ (Takes /\ Head(q).op = "conn_removed" /\ Head(q).arg \notin DOMAIN conns)
        => (pc' = "get_more" /\ conns' = conns /\ vmseen' = vmseen) ]_vars

BurstDone ==
    /\ burst.posts > 0
    /\ burst.taken = burst.posts
    /\ pc = "get_first"
    /\ q = <<>>

\* C4 as claimed: BurstSize events posted from an idle wait on cost exactly
\* one scan, however the posts interleave with the gets.
C4_OneScanPerBurst ==
    (BurstDone /\ burst.posts = BurstSize) => burst.scans = 1

\* C4 as amended: they cost at least one scan and at most one per event,
\* and exactly one when all were posted before the thread took the first.
C4_OneScanPerDrain ==
    BurstDone =>
        /\ burst.scans >= 1
        /\ burst.scans <= burst.posts
        /\ burst.early => burst.scans = 1

\* BurstSize events posted before the first get: one scan
C4_Witness ==
    /\ BurstDone
    /\ burst.posts = BurstSize
    /\ burst.early
    /\ burst.scans = 1

\* C5: no attempt is over with the handle it created not yet released.
C5_ReleasedByEndOfAttempt == NoAttempt => unreleased = 0

\* C6: the registry holds only local connections under their own uri, and
\* no method of the remote connection is called: none of its machines is
\* listed, fetched or inspected.
C6_OnlyLocalConnections ==
    /\ \A u \in DOMAIN conns :
          /\ conns[u] \in AllConns
          /\ ~is_remote(conns[u])
          /\ get_uri(conns[u]) = u
    /\ \A c \in AllConns : is_remote(c) =>
          /\ get_uri(c) \notin DOMAIN conns
          /\ conn # c
          /\ \A v \in VmsOf(world, c) : v \notin vmseen /\ nproc[v] = 0

\* conn_added was applied for the remote connection and for None, and a
\* scan over a local connection is done
C6_Witness ==
    /\ ScanDone
    /\ conn # None
    /\ q = <<>>
    /\ \E c \in AllConns : is_remote(c) /\ get_uri(c) \in added

a_is_under(a, b) ==
    /\ Len(b) < Len(a)
    /\ SubSeq(a, 1, Len(b)) = b

\* C7: the mounts are attempted in non-decreasing length of the
\* mountpoint, each returned pair once, and so a mountpoint before every
\* longer mountpoint under it.
C7_MountOrder ==
    /\ \A i, j \in 1..Len(attempts) :
          i < j => Len(attempts[i].mountpoint) <= Len(attempts[j].mountpoint)
    /\ \A i \in 1..Len(attempts) :
          /\ <<attempts[i].mountpoint, attempts[i].device>> \in Range(returned.list)
          /\ \A j \in 1..Len(attempts) :
                attempts[i].mountpoint = attempts[j].mountpoint => i = j
          /\ \A p \in Range(returned.list) :
                a_is_under(attempts[i].mountpoint, p[1]) =>
                    \E k \in 1..(i - 1) : attempts[k].mountpoint = p[1]
    /\ pc \in {"extract", "release"} /\ returned.ok =>
          Len(attempts) = Len(returned.list)

\* /var/lib, /var and / were returned in that order and mounted in the
\* opposite one
C7_Witness ==
    /\ pc = "extract"
    /\ Len(returned.list) = 3
    /\ returned.list[1][1] = MpVarLib
    /\ returned.list[2][1] = MpVar
    /\ returned.list[3][1] = MpRoot
    /\ attempts[1].mountpoint = MpRoot
    /\ attempts[3].mountpoint = MpVarLib

\* C8: whichever mounts raise, every pair of the sorted list is attempted,
\* filesystems_mounted is set, and the icon and applications step is not
\* skipped: when _process gets past it, the applications were listed.
C8_MountFailuresIgnored ==
    /\ pc = "mount" => returned.ok
    /\ pc = "extract" /\ returned.ok =>
          /\ filesystems_mounted
          /\ Len(attempts) = Len(mps)
          /\ \A i \in 1..Len(mps) :
                /\ attempts[i].mountpoint = mps[i][1]
                /\ attempts[i].device = mps[i][2]
    /\ pc = "release" /\ returned.ok =>
          /\ filesystems_mounted
          /\ result.apps # None

\* the first mount raised, the later ones were attempted, and the
\* applications were listed
C8_Witness ==
    /\ pc = "release"
    /\ Len(attempts) = MaxMounts
    /\ \A i \in 1..Len(attempts) : ~attempts[i].ok
    /\ result.apps # None

\* C9: when conn_removed(uri) was posted after a conn_added for a connection
\* with that uri, applying it raises nothing and leaves no entry for the uri.
C9_RemovalAfterAdd ==
    [][ (/\ Takes
         /\ Head(q).op = "conn_removed"
         /\ Head(q).after_add)
        => (pc' # "dead" /\ Head(q).arg \notin DOMAIN conns') ]_vars

\* the events are applied once each, in the order of their posting
AppliedInOrder == \A i \in 1..Len(applied) : applied[i] = i

\* C10: every posted event is applied once, in the order of posting, and
\* none stays unapplied for ever.
C10_AppliedOnceInOrderEventually ==
    /\ []AppliedInOrder
    /\ \A i \in 1..BurstSize : (nposted >= i) ~> (Len(applied) >= i)

\* C11: while the main thread has events left to post, conn_added,
\* conn_removed and vm_added are enabled whatever the inspection thread is
\* doing and however long the queue is, and each completes by appending
\* one event to the queue, leaving the inspection thread where it is.
C11_ProducersNeverWait ==
    /\ [](nposted < MaxPostsOf(world) =>
            /\ \A c \in ConnsOf(world) : ENABLED conn_added(c)
            /\ \A uri \in UrisOf(world) : ENABLED conn_removed(uri)
            /\ ENABLED vm_added)
    /\ [][MainThread =>
            /\ Len(q') = Len(q) + 1
            /\ SubSeq(q', 1, Len(q)) = q
            /\ q'[Len(q')].id = nposted'
            /\ pc' = pc
            /\ conns' = conns
            /\ vmseen' = vmseen]_vars

\* an event was queued while the thread is in a scan, about to call
\* g.launch(), and the main thread has more to post onto the non-empty queue
C11_Witness ==
    /\ pc = "launch"
    /\ q # <<>>
    /\ nposted < MaxPostsOf(world)

\* C12: run() is never left: whatever events are posted and whichever
\* collaborator calls raise, the inspection thread is asleep, getting from
\* the queue or scanning, and never ended.
C12_WorkerNeverStops == pc # "dead"

\* C13: when the scan moves on from a vmuuid it found not in _vmseen, the
\* vmuuid is in _vmseen, whether get_vm returned or raised.
C13_SeenWhenScanMovesOn ==
    [][ (/\ pc = "scan_vm"
         /\ uuids # <<>>
         /\ uuids' = Tail(uuids)
         /\ Unseen(Head(uuids), vmseen))
        => ~Unseen(Head(uuids), vmseen') ]_vars

\* C14: no attempt ends in the mount phase or in the icon and applications
\* step: whatever raises there, _process goes on to its end, where the
\* attempt is logged as inspected.
C14_MountAndExtractFailuresNotFatal ==
    [][ /\ pc \in {"mountpoints", "mount", "extract"} =>
              /\ vmuuid' = vmuuid
              /\ pc' \in {"mountpoints", "mount", "extract", "release"}
        /\ pc = "release" /\ pc' # pc =>
              last' = [vmuuid |-> vmuuid, outcome |-> "inspected",
                       exc |-> "none"] ]_vars

\* C15: a method the guestfs binding lacks (inspect_get_product_variant,
\* inspect_get_icon, inspect_list_applications) never ends an attempt in
\* an error: no attempt ends on the AttributeError of a missing method,
\* and at the end of _process the field of a missing method is None.
C15_MissingCapabilityNotAnError ==
    /\ last.exc # "AttributeError"
    /\ pc = "release" =>
          /\ ~hasattr("inspect_get_product_variant") =>
                result.product_variant = None
          /\ ~hasattr("inspect_get_icon") => result.icon = None
          /\ ~hasattr("inspect_list_applications") => result.apps = None

\* the GuestFS handles that exist and are not closed
Live == unreleased + LeftOpen(g)

\* C16: at most one GuestFS handle is live at any time: the handle of one
\* attempt is closed before the handle of the next is created.
C16_AtMostOneHandleLive == Live <= 1

\* the inspection thread is inside _process_vms
Scanning == pc \notin {"sleep", "get_first", "get_more", "dead"}

\* C17: while the thread is inside _process_vms the registry does not
\* change and the events posted stay in the queue; the scan starts on the
\* registry as the drain left it, visits its connections one by one, each
\* once, and returns when none is left.
C17_RegistryFixedDuringScan ==
    [][ /\ Scanning =>
              /\ conns' = conns
              /\ Len(q') >= Len(q)
              /\ SubSeq(q', 1, Len(q)) = q
              /\ todo' \subseteq todo
              /\ todo' # todo =>
                    \E u \in todo : todo' = todo \ {u} /\ conn' = conns[u]
              /\ ~Scanning' => todo = {}
        /\ ~Scanning /\ Scanning' =>
              /\ conns' = conns
              /\ todo' = DOMAIN conns ]_vars

\* the removal of the connection being scanned is waiting in the queue,
\* another connection is still to be visited
C17_Witness ==
    /\ pc = "scan_vm"
    /\ conn # None
    /\ todo # {}
    /\ \E i \in 1..Len(q) :
          q[i].op = "conn_removed" /\ q[i].arg = get_uri(conn)

\* C18: every drive is added with readonly=1 and every mount is a
\* mount_ro; the drives of a handle are exactly the disks of the machine
\* whose type is block or file and whose path is not None, in their order,
\* each with its driver_type as format; and none is added once the handle
\* is launched.
C18_ReadOnlyAttachments ==
    /\ [](/\ \A i \in 1..Len(drives) : drives[i].readonly = 1
          /\ \A i \in 1..Len(attempts) : attempts[i].readonly = 1
          /\ g # "unbound" =>
                LET disks == get_disk_devices(vmuuid)
                    wanted == {i \in 1..Len(disks) :
                                 /\ disks[i].type \in {"block", "file"}
                                 /\ disks[i].path # None}
                IN /\ Len(drives) = Cardinality(wanted)
                   /\ \A i \in wanted :
                         LET k == Cardinality({j \in wanted : j <= i}) IN
                         /\ drives[k].path = disks[i].path
                         /\ drives[k].format = disks[i].driver_type)
    /\ [][g = "launched" /\ g' = "launched" => drives' = drives]_vars

\* a machine with four disks, two of them to attach, is launched with the
\* two and its root filesystem was mounted
C18_Witness ==
    /\ pc = "extract"
    /\ g = "launched"
    /\ Len(get_disk_devices(vmuuid)) = 4
    /\ Len(drives) = 2
    /\ Len(attempts) = 1

\* C19: no step takes a vmuuid out of _vmseen: not the application of an
\* event, conn_removed of the connection that listed it included, and not
\* a step of a scan.
C19_SeenSetOnlyGrows == [][vmseen \subseteq vmseen']_vars

\* two machines are seen and the connection that listed them was removed
C19_Witness ==
    /\ Cardinality(vmseen) = 2
    /\ DOMAIN conns = {}
    /\ pc = "get_more"

\* C20: when g.inspect_os() returns no root (the attempt ends at that call
\* and not by an exception), the attempt is logged as no-os-found, no
\* metadata, mountpoint, mount, icon or applications call was made, the
\* scan goes on with the next vmuuid, and the vmuuid is in _vmseen.
C20_NoOsFoundIsNotAnError ==
    /\ [][ (pc = "inspect_os" /\ vmuuid' = None /\ last'.exc = "none") =>
              /\ last' = [vmuuid |-> vmuuid, outcome |-> "no-os-found",
                          exc |-> "none"]
              /\ pc' = "scan_vm"
              /\ vmuuid \in vmseen'
              /\ root = None
              /\ result = NoResult
              /\ ~returned.ok
              /\ attempts = <<>>
              /\ ~filesystems_mounted ]_vars
    /\ [](last.outcome = "no-os-found" =>
              /\ last.exc = "none"
              /\ last.vmuuid \in vmseen)

\* a machine without operating system was passed and the scan is
\* processing the next one
C20_Witness ==
    /\ last.outcome = "no-os-found"
    /\ vmuuid # None
    /\ vmuuid # last.vmuuid
    /\ pc = "inspect_os"

====
